---------------------------- MODULE Spec2Model ----------------------------
(***************************************************************************)
(* tsanalyzer: the periodicity estimators (FFTAnalyzer, WaveletAnalyzer,   *)
(* ACFAnalyzer, LombScargleAnalyzer) and RunsTestAnalyzer as state         *)
(* machines over one estimator instance.  The state is the instance's      *)
(* fields after __init__; each method (compute, plot, reconstruct) is one  *)
(* action, and so is a write of the caller to the array it passed.         *)
(*                                                                         *)
(* Numbers.  A float is modelled exactly as a rational [n, d] with d > 0,  *)
(* kept in lowest terms, or as NaN (d = 0).  Arithmetic propagates NaN as  *)
(* IEEE arithmetic does, and comparisons with NaN are false.               *)
(* Optional fields.  Python's None is the empty tuple <<>>, a present      *)
(* value v is <<v>>.                                                       *)
(* Indices.  Array indices stored in fields and passed to methods are      *)
(* Python's (0-based, negative from the end); sequences are 1-based.       *)
(***************************************************************************)
EXTENDS Integers, Sequences, FiniteSets, TLC

\* self:     the fields of the estimator instance
\* input:    the arrays the caller passed to __init__
\* outcome:  what the last call did: returned a value or raised an error
\* computed: compute() has returned normally at least once
\* caller:   what the caller passed to __init__: the values at that time and
\*           whether it was a numpy array (shared) or a Python list
VARIABLES self, input, outcome, computed, caller

vars == <<self, input, outcome, computed, caller>>

(***************************************************************************)
(* Bounds of the model.                                                    *)
(***************************************************************************)
MaxSample == 2
MaxLenFFT == 5

(***************************************************************************)
(* Floats.                                                                 *)
(***************************************************************************)
NaN == [n |-> 0, d |-> 0]

IsNaN(a) == a.d = 0

Abs(i) == IF i < 0 THEN -i ELSE i

RECURSIVE GCD(_, _)
GCD(a, b) == IF b = 0 THEN a ELSE GCD(b, a % b)

Rat(num, den) ==
    IF den = 0 THEN NaN
    ELSE LET g == GCD(Abs(num), Abs(den))
             s == IF den < 0 THEN -1 ELSE 1
         IN  [n |-> s * (num \div g), d |-> s * (den \div g)]

Num(i) == [n |-> i, d |-> 1]

\* a + b over the least common denominator
Add(a, b) ==
    IF IsNaN(a) \/ IsNaN(b) THEN NaN
    ELSE LET g == GCD(a.d, b.d)
         IN  Rat(a.n * (b.d \div g) + b.n * (a.d \div g), (a.d \div g) * b.d)
Neg(a) == [n |-> -a.n, d |-> a.d]
Sub(a, b) == Add(a, Neg(b))
\* a * b, cancelling common factors across before multiplying
Mul(a, b) ==
    IF IsNaN(a) \/ IsNaN(b) THEN NaN
    ELSE LET g1 == GCD(Abs(a.n), b.d)
             g2 == GCD(Abs(b.n), a.d)
         IN  Rat((a.n \div g1) * (b.n \div g2), (a.d \div g2) * (b.d \div g1))
\* a / b for b # 0 (0/0 and NaN operands give NaN)
Div(a, b) ==
    IF IsNaN(a) \/ IsNaN(b) \/ b.n = 0 THEN NaN
    ELSE Mul(a, IF b.n < 0 THEN [n |-> -b.d, d |-> -b.n] ELSE [n |-> b.d, d |-> b.n])

Gt(a, b) == ~IsNaN(a) /\ ~IsNaN(b) /\ Sub(a, b).n > 0
Eq(a, b) == ~IsNaN(a) /\ ~IsNaN(b) /\ a = b
IsZero(a) == ~IsNaN(a) /\ a.n = 0

RECURSIVE Sum(_)
Sum(s) == IF s = <<>> THEN Num(0) ELSE Add(Head(s), Sum(Tail(s)))

HasNaN(s) == \E i \in 1..Len(s) : IsNaN(s[i])

RECURSIVE Pow2(_)
Pow2(k) == IF k <= 0 THEN 1 ELSE 2 * Pow2(k - 1)

(***************************************************************************)
(* None / present values, and the result of a method call.                 *)
(***************************************************************************)
None == <<>>
Some(v) == <<v>>
IsNone(x) == x = <<>>
The(x) == x[1]

\* The error of the guards `raise ValueError("请先调用 .compute()")`.
NotComputed == "NotComputed"

Return(s, op, arg, ret) ==
    [self |-> s, outcome |-> [op |-> op, arg |-> arg, ok |-> TRUE, err |-> "", ret |-> ret]]

Raise(s, op, arg, err) ==
    [self |-> s, outcome |-> [op |-> op, arg |-> arg, ok |-> FALSE, err |-> err, ret |-> <<>>]]

(***************************************************************************)
(* numpy helpers.                                                          *)
(***************************************************************************)
\* An argmax that returns the last occurrence of the maximum
ArgMax_last(a) ==
    IF HasNaN(a)
    THEN (CHOOSE i \in 1..Len(a) : IsNaN(a[i]) /\ \A j \in 1..(i - 1) : ~IsNaN(a[j])) - 1
    ELSE (CHOOSE i \in 1..Len(a) :
             /\ \A j \in 1..Len(a) : ~Gt(a[j], a[i])
             /\ \A j \in (i + 1)..Len(a) : Gt(a[i], a[j])) - 1

\* np.argmax of a non-empty array (0-based): the first NaN if there is one,
\* else the first occurrence of the maximum.
ArgMax(a) ==
    IF HasNaN(a)
    THEN (CHOOSE i \in 1..Len(a) : IsNaN(a[i]) /\ \A j \in 1..(i - 1) : ~IsNaN(a[j])) - 1
    ELSE (CHOOSE i \in 1..Len(a) :
             /\ \A j \in 1..Len(a) : ~Gt(a[j], a[i])
             /\ \A j \in 1..(i - 1) : Gt(a[i], a[j])) - 1

\* a[1:]
From1(a) == IF a = <<>> THEN <<>> ELSE Tail(a)

\* np.mean
Mean(a) == Div(Sum(a), Num(Len(a)))

\* All arrays of length 0..k over S
SeqUpTo(S, k) == UNION {[1..m -> S] : m \in 0..k}

\* The samples a caller may pass: small integers and missing values.
Samples == {Num(i) : i \in 0..MaxSample} \cup {NaN}

(***************************************************************************)
(* FFTAnalyzer (periodicity/fft.py)                                        *)
(***************************************************************************)
\* 1000 * cos(2 pi m / n), rounded, for the lengths the model reaches.
CosMilli(m, n) ==
    CASE n = 1 -> <<1000>>[m + 1]
      [] n = 2 -> <<1000, -1000>>[m + 1]
      [] n = 3 -> <<1000, -500, -500>>[m + 1]
      [] n = 4 -> <<1000, 0, -1000, 0>>[m + 1]
      [] n = 5 -> <<1000, 309, -809, -809, 309>>[m + 1]
      [] n = 6 -> <<1000, 500, -500, -1000, -500, 500>>[m + 1]
      [] n = 7 -> <<1000, 623, -223, -901, -901, -223, 623>>[m + 1]
      [] n = 8 -> <<1000, 707, 0, -707, -1000, -707, 0, 707>>[m + 1]

RECURSIVE SumInt(_, _, _)
\* f[lo] + ... + f[hi] for an integer-valued function f
SumInt(f, lo, hi) == IF lo > hi THEN 0 ELSE f[lo] + SumInt(f, lo + 1, hi)

\* (|fft(x - mean(x))[k]| / n)^2 for the series x: the square of the
\* normalised amplitude of bin k.  With d[t] = n*x[t] - sum(x) (so d/n is the
\* mean-centred series), |fft[k]|^2 = sum_{s,t} d[s] d[t] cos(2 pi k (s-t)/n) / n^2.
AmpSq(series, k) ==
    IF HasNaN(series) THEN NaN
    ELSE LET n == Len(series)
             tot == Sum(series).n
             d == [t \in 1..n |-> n * series[t].n - tot]
             row == [s \in 1..n |->
                        SumInt([t \in 1..n |-> d[s] * d[t] * CosMilli((k * (s - t)) % n, n)], 1, n)]
         IN  Rat(SumInt(row, 1, n), 1000 * n * n * n * n)

FsValues == {Num(-1), Num(0), Num(1), Num(2)}

FFT_init(series, sampling_rate) ==
    [cls |-> "FFTAnalyzer",
     series |-> series,
     sampling_rate |-> sampling_rate,
     n |-> Len(series),
     freqs |-> None,
     amps |-> None,
     peak_freq |-> None,
     period |-> None,
     strength |-> None]

\* np.argmax(self.amps[1:]) + 1 (the caller has checked amps[1:] is not empty)
FFT_peak_index(amps) == ArgMax(From1(amps)) + 1

FFT_compute(s) ==
    IF s.n = 0 THEN Raise(s, "compute", 0, "ValueError")                  \* fft(x) of no data points
    ELSE IF IsZero(s.sampling_rate)
    THEN Raise(s, "compute", 0, "ZeroDivisionError")                      \* 1 / self.sampling_rate
    ELSE
    LET half_n == s.n \div 2
        freqs == [k \in 1..half_n |-> Div(Mul(Num(k - 1), s.sampling_rate), Num(s.n))]
        amps == [k \in 1..half_n |-> AmpSq(s.series, k - 1)]
        s1 == [s EXCEPT !.freqs = Some(freqs), !.amps = Some(amps)]
    IN  IF From1(amps) = <<>>
        THEN Raise(s1, "compute", 0, "ValueError")                        \* argmax of an empty sequence
        ELSE
        LET peak_index == FFT_peak_index(amps)
            peak_freq == freqs[peak_index + 1]
            period == IF ~IsZero(peak_freq) THEN Some(Div(Num(1), peak_freq)) ELSE None
            strength == amps[peak_index + 1]
            s2 == [s1 EXCEPT !.peak_freq = Some(peak_freq),
                             !.period = period,
                             !.strength = Some(strength)]
        IN  IF IsNone(period)
            THEN Raise(s2, "compute", 0, "TypeError")                     \* float(None)
            ELSE Return(s2, "compute", 0, <<peak_freq, The(period), strength, freqs, amps>>)

FFT_plot(s, show_log) ==
    IF IsNone(s.freqs) \/ IsNone(s.amps)
    THEN Raise(s, "plot", 0, NotComputed)
    ELSE IF IsNone(s.peak_freq)
    THEN Raise(s, "plot", 0, "TypeError")                                 \* f"{self.peak_freq:.2f}" of None
    ELSE Return(s, "plot", 0, <<>>)

(***************************************************************************)
(* WaveletAnalyzer (periodicity/wavelet.py) over pywt's wavedec / waverec. *)
(*                                                                         *)
(* Every filter tap of the modelled bases is a rational multiple of        *)
(* 1/sqrt(2).  A coefficient array produced after j analysis steps is      *)
(* stored in units of 2^(-j/2): the stored number C stands for the float   *)
(* C * 2^(-j/2).  With that, analysis uses the rational taps below as they *)
(* are, one synthesis step halves, and the energy of an array of depth j   *)
(* is sum(C^2) / 2^j.                                                      *)
(***************************************************************************)
MaxLenWavelet == 3
MaxLevelArg == 2

Wavelets == {"haar", "bior1.3"}
Modes == {"symmetric", "periodization"}

\* sqrt(2) * wavelet.dec_lo, dec_hi, rec_lo, rec_hi
Taps(wavelet) ==
    IF wavelet = "haar"
    THEN [dec_lo |-> <<Num(1), Num(1)>>,
          dec_hi |-> <<Num(-1), Num(1)>>,
          rec_lo |-> <<Num(1), Num(1)>>,
          rec_hi |-> <<Num(1), Num(-1)>>]
    ELSE [dec_lo |-> <<Rat(-1, 8), Rat(1, 8), Num(1), Num(1), Rat(1, 8), Rat(-1, 8)>>,
          dec_hi |-> <<Num(0), Num(0), Num(-1), Num(1), Num(0), Num(0)>>,
          rec_lo |-> <<Num(0), Num(0), Num(1), Num(1), Num(0), Num(0)>>,
          rec_hi |-> <<Rat(-1, 8), Rat(-1, 8), Num(1), Num(-1), Rat(1, 8), Rat(1, 8)>>]

\* wavelet.dec_len
FilterLen(wavelet) == Len(Taps(wavelet).dec_lo)

RECURSIVE FloorLog2(_)
FloorLog2(k) == IF k <= 1 THEN 0 ELSE 1 + FloorLog2(k \div 2)

\* pywt.dwt_max_level(data_len, filter_len)
dwt_max_level(data_len, filter_len) ==
    IF data_len < filter_len - 1 THEN 0 ELSE FloorLog2(data_len \div (filter_len - 1))

\* The sample of x (0-based index idx, possibly outside 0..N-1) under the
\* boundary extension of `mode`; periodization first repeats the last sample
\* of an odd-length signal.
Extended(x, idx, mode) ==
    LET N == Len(x)
    IN  CASE mode = "zero" -> IF idx >= 0 /\ idx < N THEN x[idx + 1] ELSE Num(0)
          [] mode = "symmetric" ->
                LET m == idx % (2 * N)
                IN  IF m < N THEN x[m + 1] ELSE x[2 * N - m]
          [] mode = "periodization" ->
                LET P == N + (N % 2)
                    m == idx % P
                IN  IF m < N THEN x[m + 1] ELSE x[N]

\* Length of the coefficient arrays of one analysis step
dwt_coeff_len(N, F, mode) ==
    IF mode = "periodization" THEN (N + 1) \div 2 ELSE (N + F - 1) \div 2

\* One analysis filter: convolution with `filt` and downsampling by 2.
Analyse(x, filt, mode) ==
    LET F == Len(filt)
        start == IF mode = "periodization" THEN F \div 2 ELSE 1
    IN  [o \in 1..dwt_coeff_len(Len(x), F, mode) |->
            Sum([j \in 1..F |-> Mul(filt[j], Extended(x, start + 2 * (o - 1) - (j - 1), mode))])]

\* pywt.dwt: (cA, cD)
dwt(x, wavelet, mode) ==
    [a |-> Analyse(x, Taps(wavelet).dec_lo, mode),
     d |-> Analyse(x, Taps(wavelet).dec_hi, mode)]

\* Length of the output of one synthesis step from arrays of length L
idwt_len(L, F, mode) == IF mode = "periodization" THEN 2 * L ELSE 2 * L - F + 2

\* pywt.idwt for cA, cD of equal length: upsampling by 2, convolution with
\* the synthesis filters, the valid part kept.
idwt(a, d, wavelet, mode) ==
    LET t == Taps(wavelet)
        F == FilterLen(wavelet)
        L == Len(a)
        shift == IF mode = "periodization" THEN (F \div 2 - 1) \div 2 ELSE 0
        \* contribution to output sample m of the coefficient pair at position o
        term(m, o) ==
            LET tap == m + F - 2 - 2 * o
                at == IF mode = "periodization" THEN ((o - shift) % L) + 1 ELSE o + 1
            IN  IF tap < 0 \/ tap >= F \/ (mode # "periodization" /\ (o < 0 \/ o >= L))
                THEN Num(0)
                ELSE Add(Mul(t.rec_lo[tap + 1], a[at]), Mul(t.rec_hi[tap + 1], d[at]))
    IN  [m1 \in 1..idwt_len(L, F, mode) |->
            Div(Sum([k \in 1..F |-> term(m1 - 1, ((m1 - 1) \div 2) + (k - 1))]), Num(2))]

RECURSIVE Decompose(_, _, _, _)
\* the loop of pywt.wavedec: <<cD_1, ..., cD_level, cA_level>>
Decompose(a, wavelet, mode, level) ==
    IF level = 0 THEN <<a>>
    ELSE LET r == dwt(a, wavelet, mode)
         IN  <<r.d>> \o Decompose(r.a, wavelet, mode, level - 1)

Reverse(s) == [i \in 1..Len(s) |-> s[Len(s) + 1 - i]]

\* pywt's _check_level: the number of levels wavedec computes (a level above
\* dwt_max_level only warns)
check_level(N, wavelet, level) ==
    IF IsNone(level) THEN dwt_max_level(N, FilterLen(wavelet)) ELSE The(level)

\* pywt.wavedec: [cA_n, cD_n, ..., cD_1]
wavedec(data, wavelet, mode, level) ==
    Reverse(Decompose(data, wavelet, mode, check_level(Len(data), wavelet, level)))

RECURSIVE Synthesise(_, _, _, _)
\* the loop of pywt.waverec over the detail arrays ds, from the approximation
\* a; <<>> stands for the ValueError of a coefficient shape mismatch.
Synthesise(a, ds, wavelet, mode) ==
    IF ds = <<>> THEN Some(a)
    ELSE LET d == Head(ds)
             a1 == IF Len(a) = Len(d) + 1 THEN SubSeq(a, 1, Len(d)) ELSE a
         IN  IF Len(a1) # Len(d) THEN None
             ELSE Synthesise(idwt(a1, d, wavelet, mode), Tail(ds), wavelet, mode)

\* pywt.waverec
waverec(coeffs, wavelet, mode) ==
    IF Len(coeffs) = 1 THEN Some(coeffs[1])
    ELSE Synthesise(coeffs[1], Tail(coeffs), wavelet, mode)

\* The series a caller may pass to WaveletAnalyzer, the depths and the
\* sampling rates: unit impulses suffice for a linear transform.
WaveletSamples == {Num(0), Num(1), NaN}
LevelArgs == {None} \cup {Some(l) : l \in -1..MaxLevelArg}
SamplingRates == {Num(0), Num(1)}

Wavelet_init(series, wavelet, max_level, mode) ==
    [cls |-> "WaveletAnalyzer",
     series |-> series,
     wavelet |-> wavelet,
     mode |-> mode,
     max_level |-> max_level,
     coeffs |-> None,
     level_energy |-> None,
     period_estimates |-> None,
     dominant_level |-> None]

\* np.sum(np.square(c)) for the array at index i >= 1 of coeffs (0-based),
\* whose depth is len(coeffs) - i
Energy(coeffs, i) ==
    LET c == coeffs[i + 1]
    IN  Div(Sum([k \in 1..Len(c) |-> Mul(c[k], c[k])]), Num(Pow2(Len(coeffs) - i)))

Wavelet_compute(s, sampling_rate) ==
    IF ~IsNone(s.max_level) /\ The(s.max_level) < 0
    THEN Raise(s, "compute", sampling_rate, "ValueError")                   \* wavedec: level too low
    ELSE
    LET coeffs == wavedec(s.series, s.wavelet, s.mode, s.max_level)
        detail_coeffs == From1(coeffs)
        level_energy == [i \in 1..Len(detail_coeffs) |-> Energy(coeffs, i)]
        s2 == [s EXCEPT !.coeffs = Some(coeffs), !.level_energy = Some(level_energy)]
    IN  IF level_energy = <<>>
        THEN Raise(s2, "compute", sampling_rate, "ValueError")              \* argmax of an empty sequence
        ELSE
        LET dominant_level == ArgMax(level_energy) + 1
            s3 == [s2 EXCEPT !.dominant_level = Some(dominant_level)]
            period_estimates ==
                [i \in 1..Len(detail_coeffs) |-> Div(Num(Pow2(i)), sampling_rate)]
            s4 == [s3 EXCEPT !.period_estimates = Some(period_estimates)]
        IN  IF IsZero(sampling_rate)
            THEN Raise(s3, "compute", sampling_rate, "ZeroDivisionError")   \* 2 ** (i + 1) / sampling_rate
            ELSE Return(s4, "compute", sampling_rate, <<dominant_level, level_energy, period_estimates>>)

\* A reconstruct that forgets to zero the approximation array
coeffs_copy_keeping_approximation(coeffs, level) ==
    LET at == IF level < 0 THEN level + Len(coeffs) + 1 ELSE level + 1
    IN  [i \in 1..Len(coeffs) |->
            IF i = at \/ i = 1 THEN coeffs[i] ELSE [k \in 1..Len(coeffs[i]) |-> Num(0)]]

\* coeffs_copy of reconstruct: zeros everywhere but at list index `level`,
\* a valid Python index of a list of length Len(coeffs)
coeffs_copy(coeffs, level) ==
    LET at == IF level < 0 THEN level + Len(coeffs) + 1 ELSE level + 1
    IN  [i \in 1..Len(coeffs) |->
            IF i = at THEN coeffs[i] ELSE [k \in 1..Len(coeffs[i]) |-> Num(0)]]

\* A reconstruct that returns the synthesis output as it is
Truncate_nothing(recon, series) == recon

\* recon[:len(self.series)]
Truncate(recon, series) ==
    IF Len(recon) <= Len(series) THEN recon ELSE SubSeq(recon, 1, Len(series))

\* A reconstruct that zeroes the other arrays of self.coeffs in place
Wavelet_reconstruct_in_place(s, level) ==
    IF IsNone(s.coeffs) THEN Raise(s, "reconstruct", level, NotComputed)
    ELSE IF level >= Len(The(s.coeffs)) \/ level < -Len(The(s.coeffs))
    THEN Raise(s, "reconstruct", level, "IndexError")
    ELSE IF IsNone(waverec(coeffs_copy(The(s.coeffs), level), s.wavelet, s.mode))
    THEN Raise(s, "reconstruct", level, "ValueError")
    ELSE Return([s EXCEPT !.coeffs = Some(coeffs_copy(The(s.coeffs), level))],
                "reconstruct", level,
                Truncate(The(waverec(coeffs_copy(The(s.coeffs), level), s.wavelet, s.mode)),
                         s.series))

Wavelet_reconstruct(s, level) ==
    IF IsNone(s.coeffs) THEN Raise(s, "reconstruct", level, NotComputed)
    ELSE
    LET coeffs == The(s.coeffs)
    IN  IF level >= Len(coeffs) \/ level < -Len(coeffs)
        THEN Raise(s, "reconstruct", level, "IndexError")       \* coeffs_copy[level] = ...
        ELSE
        LET recon == waverec(coeffs_copy(coeffs, level), s.wavelet, s.mode)
        IN  IF IsNone(recon)
            THEN Raise(s, "reconstruct", level, "ValueError")   \* coefficient shape mismatch
            ELSE Return(s, "reconstruct", level, Truncate(The(recon), s.series))

Wavelet_plot(s) ==
    IF IsNone(s.level_energy) THEN Raise(s, "plot", 0, NotComputed)
    ELSE IF IsNone(s.dominant_level)
    THEN Raise(s, "plot", 0, "TypeError")                       \* plt.axvline(None)
    ELSE Return(s, "plot", 0, <<>>)

(***************************************************************************)
(* ACFAnalyzer (periodicity/acf.py) over statsmodels' acf and scipy's      *)
(* find_peaks.                                                             *)
(*                                                                         *)
(* A confidence interval (acf[k] - interval[k], acf[k] + interval[k]) is   *)
(* stored as [c |-> acf[k], w2 |-> interval[k]^2], interval[k] >= 0.  A    *)
(* p-value chi2.sf(q, df) is stored as the pair [q, df].                   *)
(***************************************************************************)
MaxLenACF == 4
MaxLag == 3

\* pd.Series(series).dropna(): the samples that are not missing, in order
dropna(series) == SelectSeq(series, LAMBDA x : ~IsNaN(x))

\* The significance levels of the model: disabled, 0.05 and 1.0
Alphas == {None, Some(Rat(1, 20)), Some(Num(1))}

\* stats.norm.ppf(1 - alpha / 2) ^ 2, to four decimals
ZSq(alpha) == IF alpha = Num(1) THEN Num(0) ELSE Rat(38415, 10000)

ACF_init(series, nlags, alpha, adjusted, fft, qstat) ==
    [cls |-> "ACFAnalyzer",
     series |-> dropna(series),
     nlags |-> nlags,
     alpha |-> alpha,
     adjusted |-> adjusted,
     fft |-> fft,
     qstat |-> qstat,
     acf_vals |-> None,
     confint |-> None,
     qstat_vals |-> None,
     pvalues |-> None,
     peak_lag |-> None,
     peak_strength |-> None,
     multi_peaks |-> <<>>]

\* statsmodels acovf(x, adjusted, demean=True): the autocovariances at lags
\* 0..n-1 of the demeaned series (the fft and the direct estimator agree)
acovf(x, adjusted) ==
    LET n == Len(x)
        m == Mean(x)
        xo == [t \in 1..n |-> Sub(x[t], m)]
    IN  [i \in 1..n |->
            Div(Sum([t \in 1..(n - i + 1) |-> Mul(xo[t], xo[t + i - 1])]),
                Num(IF adjusted THEN n - i + 1 ELSE n))]

\* acf = avf[:nlags + 1] / avf[0]
acf_values(x, adjusted, nlags) ==
    LET avf == acovf(x, adjusted)
        len == IF nlags + 1 < Len(x) THEN nlags + 1 ELSE Len(x)
    IN  [i \in 1..len |-> Div(avf[i], avf[1])]

\* Bartlett's formula: varacf[0] = 0, varacf[1] = 1/nobs,
\* varacf[k] = (1 + 2 * sum(acf[1..k-1]^2)) / nobs
varacf(acf, nobs, k) ==
    IF k = 0 THEN Num(0)
    ELSE Div(Add(Num(1), Mul(Num(2), Sum([i \in 1..(k - 1) |-> Mul(acf[i + 1], acf[i + 1])]))),
             Num(nobs))

\* confint = lzip(acf - interval, acf + interval)
acf_confint(acf, nobs, alpha) ==
    [i \in 1..Len(acf) |-> [c |-> acf[i], w2 |-> Mul(ZSq(alpha), varacf(acf, nobs, i - 1))]]

\* q_stat(acf[1:], nobs): the Ljung-Box statistic at lags 1..len
q_stat(acf, nobs) ==
    [k \in 1..(Len(acf) - 1) |->
        Mul(Num(nobs * (nobs + 2)),
            Sum([i \in 1..k |-> Div(Mul(acf[i + 1], acf[i + 1]), Num(nobs - i))]))]

\* The tail of statsmodels acf once acf = avf[:nlags + 1] / avf[0] is known:
\* the record of the arrays it returns, or <<>> when it raises
acf_results(vals, nobs, alpha, qstat) ==
    IF ~qstat /\ IsNone(alpha)
    THEN Some([acf |-> vals, confint |-> None, qstat |-> None, pvalues |-> None])
    ELSE IF Len(vals) < 2 THEN None                             \* varacf[1] = 1.0 / nobs
    ELSE Some([acf |-> vals,
               confint |-> IF IsNone(alpha) THEN None
                           ELSE Some(acf_confint(vals, nobs, The(alpha))),
               qstat |-> IF qstat THEN Some(q_stat(vals, nobs)) ELSE None,
               pvalues |-> IF qstat
                           THEN Some([k \in 1..(Len(vals) - 1) |->
                                        [q |-> q_stat(vals, nobs)[k], df |-> k]])
                           ELSE None])

\* statsmodels acf(x, nlags, alpha, adjusted, fft, qstat)
acf(x, nlags, alpha, adjusted, qstat) ==
    IF Len(x) = 0 THEN None
    ELSE acf_results(acf_values(x, adjusted, nlags), Len(x), alpha, qstat)

RECURSIVE PlateauEnd(_, _)
\* scipy _local_maxima_1d: the inner loop, from 0-based index i_ahead
PlateauEnd(x, at) ==
    LET i == at[1]
        i_ahead == at[2]
    IN  IF i_ahead < Len(x) - 1 /\ Eq(x[i_ahead + 1], x[i + 1])
        THEN PlateauEnd(x, <<i, i_ahead + 1>>)
        ELSE i_ahead

RECURSIVE LocalMaxima(_, _)
\* scipy find_peaks(x)[0]: the outer loop of _local_maxima_1d from 0-based
\* index i; the midpoints of the plateaus higher than both their sides
LocalMaxima(x, i) ==
    IF i >= Len(x) - 1 THEN <<>>
    ELSE IF Gt(x[i + 1], x[i])
    THEN LET i_ahead == PlateauEnd(x, <<i, i + 1>>)
         IN  IF Gt(x[i + 1], x[i_ahead + 1])
             THEN <<(i + i_ahead - 1) \div 2>> \o LocalMaxima(x, i_ahead + 1)
             ELSE LocalMaxima(x, i + 1)
    ELSE LocalMaxima(x, i + 1)

find_peaks(x) == LocalMaxima(x, 1)

\* val > upper for the interval ci = (c - sqrt(w2), c + sqrt(w2))
ExceedsUpper(val, ci) ==
    LET diff == Sub(val, ci.c)
    IN  Gt(diff, Num(0)) /\ Gt(Mul(diff, diff), ci.w2)

\* the loop `for p in peaks` of compute
ACF_multi_peaks(acf_vals, confint, peaks) ==
    LET acf_nonzero == From1(acf_vals)
        kept == SelectSeq(peaks, LAMBDA p : ExceedsUpper(acf_nonzero[p + 1], confint[p + 2]))
    IN  [i \in 1..Len(kept) |-> <<kept[i] + 1, acf_nonzero[kept[i] + 1]>>]

\* compute, from `self.peak_lag = ...` on: s has the arrays of acf assigned
ACF_select(s, acf_vals, peak_lag, peaks) ==
    LET multi_peaks == IF IsNone(s.confint) THEN <<>>
                       ELSE ACF_multi_peaks(acf_vals, The(s.confint), peaks)
    IN  Return([s EXCEPT !.peak_lag = Some(peak_lag),
                         !.peak_strength = Some(acf_vals[peak_lag + 1]),
                         !.multi_peaks = multi_peaks],
               "compute", 0,
               <<peak_lag, acf_vals[peak_lag + 1], acf_vals, s.confint, s.qstat_vals,
                 s.pvalues, multi_peaks>>)

\* compute, from the unpacking of `results` on
ACF_unpack(s, results) ==
    IF IsNone(results) THEN Raise(s, "compute", 0, "ValueError")
    ELSE IF From1(The(results).acf) = <<>>
    THEN Raise([s EXCEPT !.acf_vals = Some(The(results).acf),
                         !.confint = The(results).confint,
                         !.qstat_vals = The(results).qstat,
                         !.pvalues = The(results).pvalues],
               "compute", 0, "ValueError")                      \* argmax of an empty sequence
    ELSE ACF_select([s EXCEPT !.acf_vals = Some(The(results).acf),
                              !.confint = The(results).confint,
                              !.qstat_vals = The(results).qstat,
                              !.pvalues = The(results).pvalues],
                    The(results).acf,
                    ArgMax(From1(The(results).acf)) + 1,
                    find_peaks(From1(The(results).acf)))

ACF_compute(s) == ACF_unpack(s, acf(s.series, s.nlags, s.alpha, s.adjusted, s.qstat))

ACF_plot(s) ==
    IF IsNone(s.acf_vals) THEN Raise(s, "plot", 0, NotComputed)
    ELSE IF IsNone(s.peak_lag)
    THEN Raise(s, "plot", 0, "TypeError")                       \* plt.axvline(None)
    ELSE Return(s, "plot", 0, <<>>)

(***************************************************************************)
(* LombScargleAnalyzer (periodicity/lomb.py) over scipy's lombscargle.     *)
(* Timestamps are integers and frequencies multiples of 1/8, so every      *)
(* angle 2 pi f t is a multiple of pi/4.                                   *)
(***************************************************************************)
MaxLenLomb == 2

Lomb_init(t, y, min_freq, max_freq, resolution) ==
    [cls |-> "LombScargleAnalyzer",
     t |-> t,
     y |-> LET m == Mean(y) IN [i \in 1..Len(y) |-> Sub(y[i], m)],
     min_freq |-> min_freq,
     max_freq |-> max_freq,
     resolution |-> resolution,
     freqs |-> None,
     power |-> None,
     peak_freq |-> None,
     period |-> None]

\* np.linspace(start, stop, num) for num >= 0
linspace(start, stop, num) ==
    IF num = 1 THEN <<start>>
    ELSE [i \in 1..num |-> Add(start, Div(Mul(Num(i - 1), Sub(stop, start)), Num(num - 1)))]

\* cos(2 pi m / 8), with 12/17 for 1/sqrt(2)
Cos8(m) ==
    <<Num(1), Rat(12, 17), Num(0), Rat(-12, 17), Num(-1), Rat(-12, 17), Num(0), Rat(12, 17)>>[m + 1]

\* cos(2 pi f t) and sin(2 pi f t)
CosAt(f, t) == Cos8(Mul(Num(8), Mul(f, t)).n % 8)
SinAt(f, t) == Cos8((Mul(Num(8), Mul(f, t)).n - 2) % 8)

\* scipy.signal.lombscargle(t, y, 2 pi f) at one frequency f.  The power
\* 0.5 * ((c_tau*xc + s_tau*xs)^2 / (...) + (c_tau*xs - s_tau*xc)^2 / (...))
\* with tau the offset that makes the two rotated bases orthogonal, which is
\* (xc^2 ss - 2 xc xs cs + xs^2 cc) / (2 (cc ss - cs^2)); NaN when degenerate.
lombscargle_at(t, y, f) ==
    IF HasNaN(y) THEN NaN
    ELSE
    LET n == Len(t)
        c == [j \in 1..n |-> CosAt(f, t[j])]
        sn == [j \in 1..n |-> SinAt(f, t[j])]
        xc == Sum([j \in 1..n |-> Mul(y[j], c[j])])
        xs == Sum([j \in 1..n |-> Mul(y[j], sn[j])])
        cc == Sum([j \in 1..n |-> Mul(c[j], c[j])])
        ss == Sum([j \in 1..n |-> Mul(sn[j], sn[j])])
        cs == Sum([j \in 1..n |-> Mul(c[j], sn[j])])
        num == Add(Sub(Mul(Mul(xc, xc), ss), Mul(Num(2), Mul(Mul(xc, xs), cs))),
                   Mul(Mul(xs, xs), cc))
        den == Mul(Num(2), Sub(Mul(cc, ss), Mul(cs, cs)))
    IN  IF IsZero(den) THEN NaN ELSE Div(num, den)

Lomb_compute(s) ==
    IF s.resolution < 0
    THEN Raise(s, "compute", 0, "ValueError")                   \* np.linspace: negative num
    ELSE
    LET freqs == linspace(s.min_freq, s.max_freq, s.resolution)
        s1 == [s EXCEPT !.freqs = Some(freqs)]
        power == [i \in 1..Len(freqs) |-> lombscargle_at(s.t, s.y, freqs[i])]
        s2 == [s1 EXCEPT !.power = Some(power)]
    IN  IF Len(s.t) # Len(s.y)
        THEN Raise(s1, "compute", 0, "ValueError")              \* lombscargle: sizes differ
        ELSE IF power = <<>>
        THEN Raise(s2, "compute", 0, "ValueError")              \* argmax of an empty sequence
        ELSE
        LET peak_idx == ArgMax(power)
            peak_freq == freqs[peak_idx + 1]
            period == IF Gt(peak_freq, Num(0)) THEN Some(Div(Num(1), peak_freq)) ELSE None
            s3 == [s2 EXCEPT !.peak_freq = Some(peak_freq), !.period = period]
        IN  Return(s3, "compute", 0, <<peak_freq, period, freqs, power>>)

Lomb_plot(s) ==
    IF IsNone(s.freqs) \/ IsNone(s.power) THEN Raise(s, "plot", 0, NotComputed)
    ELSE IF IsNone(s.period)
    THEN Raise(s, "plot", 0, "TypeError")                       \* f"{self.period:.2f}" of None
    ELSE Return(s, "plot", 0, <<>>)

(***************************************************************************)
(* The estimator instance and its method calls.                            *)
(***************************************************************************)
Apply(r) ==
    /\ self' = r.self
    /\ outcome' = r.outcome
    /\ computed' = (computed \/ (r.outcome.op = "compute" /\ r.outcome.ok))
    /\ UNCHANGED <<input, caller>>

\* The state after __init__ on a Python list
Constructed(s, in) ==
    /\ self = s
    /\ input = in
    /\ caller = [original |-> in, shared |-> FALSE]
    /\ outcome = [op |-> "__init__", arg |-> 0, ok |-> TRUE, err |-> "", ret |-> <<>>]
    /\ computed = FALSE

InitFFT ==
    \E series \in SeqUpTo(Samples, MaxLenFFT), fs \in FsValues :
        Constructed(FFT_init(series, fs), series)

FFTCompute == self.cls = "FFTAnalyzer" /\ Apply(FFT_compute(self))

FFTPlot == self.cls = "FFTAnalyzer" /\ \E show_log \in BOOLEAN : Apply(FFT_plot(self, show_log))

NextFFT == FFTCompute \/ FFTPlot

SpecFFT == InitFFT /\ [][NextFFT]_vars

InitWavelet ==
    \E series \in SeqUpTo(WaveletSamples, MaxLenWavelet) \ {<<>>},
       wavelet \in Wavelets, max_level \in LevelArgs, mode \in Modes :
        Constructed(Wavelet_init(series, wavelet, max_level, mode), series)

WaveletCompute ==
    /\ self.cls = "WaveletAnalyzer"
    /\ \E sampling_rate \in SamplingRates : Apply(Wavelet_compute(self, sampling_rate))

\* The levels a caller tries: the valid ones, the ones next to them, the
\* negative index Python accepts and the first one it does not
LevelsTried(s) ==
    IF IsNone(s.coeffs) THEN -1..1
    ELSE (-1..Len(The(s.coeffs))) \cup {-(Len(The(s.coeffs)) + 1)}

WaveletReconstruct ==
    /\ self.cls = "WaveletAnalyzer"
    /\ \E level \in LevelsTried(self) : Apply(Wavelet_reconstruct(self, level))

WaveletPlot == self.cls = "WaveletAnalyzer" /\ Apply(Wavelet_plot(self))

NextWavelet == WaveletCompute \/ WaveletReconstruct \/ WaveletPlot

SpecWavelet == InitWavelet /\ [][NextWavelet]_vars

ACFSamples == {Num(0), Num(1), Num(2)}

\* The series a caller may pass to ACFAnalyzer: complete ones over three
\* values (enough for two lags to share the maximal coefficient) and ones
\* with missing samples
ACFSeries ==
    SeqUpTo(ACFSamples, MaxLenACF) \cup SeqUpTo({Num(0), Num(1), NaN}, MaxLenACF)

InitACF ==
    \E series \in ACFSeries, nlags \in 0..MaxLag, alpha \in Alphas,
       adjusted \in BOOLEAN, qstat \in BOOLEAN :
        Constructed(ACF_init(series, nlags, alpha, adjusted, TRUE, qstat), series)

ACFCompute == self.cls = "ACFAnalyzer" /\ Apply(ACF_compute(self))

ACFPlot == self.cls = "ACFAnalyzer" /\ Apply(ACF_plot(self))

NextACF == ACFCompute \/ ACFPlot

SpecACF == InitACF /\ [][NextACF]_vars

LombTimes == {Num(0), Num(1), Num(3)}
LombValues == {Num(0), Num(1), NaN}
LombFreqs == {Num(0), Rat(1, 4), Rat(1, 2)}
Resolutions == -1..3

InitLomb ==
    \E t \in SeqUpTo(LombTimes, MaxLenLomb), y \in SeqUpTo(LombValues, MaxLenLomb),
       min_freq \in LombFreqs, max_freq \in LombFreqs, resolution \in Resolutions :
        Constructed(Lomb_init(t, y, min_freq, max_freq, resolution), <<t, y>>)

LombCompute == self.cls = "LombScargleAnalyzer" /\ Apply(Lomb_compute(self))

LombPlot == self.cls = "LombScargleAnalyzer" /\ Apply(Lomb_plot(self))

NextLomb == LombCompute \/ LombPlot

SpecLomb == InitLomb /\ [][NextLomb]_vars

(***************************************************************************)
(* RunsTestAnalyzer (randomness/runs_test.py).                             *)
(*                                                                         *)
(* z_stat = (runs - expected_runs) / sqrt(v) is stored as                  *)
(* [num |-> runs - expected_runs, var |-> v], or as NaN when v is 0 or NaN *)
(* (the numerator is 0 whenever v is); p_value = 2 * (1 - norm.cdf(|z|))   *)
(* is stored as [z |-> z_stat].                                            *)
(***************************************************************************)
MaxLenRuns == 4
RunsSamples == {Num(0), Num(1), Num(2), NaN}
Methods == {"median", "mean"}

Runs_init(series, method) ==
    [cls |-> "RunsTestAnalyzer",
     series |-> dropna(series),
     method |-> method,
     signs |-> None,
     runs |-> None,
     z_stat |-> None,
     p_value |-> None,
     expected_runs |-> None,
     run_segments |-> <<>>]

RECURSIVE Insert(_, _)
\* v put into the ascending sequence s
Insert(v, s) ==
    IF s = <<>> THEN <<v>>
    ELSE IF Gt(v, Head(s)) THEN <<Head(s)>> \o Insert(v, Tail(s))
    ELSE <<v>> \o s

RECURSIVE SortAsc(_)
SortAsc(s) == IF s = <<>> THEN <<>> ELSE Insert(Head(s), SortAsc(Tail(s)))

\* np.median(x): NaN for no samples
median(x) ==
    LET n == Len(x)
        sorted == SortAsc(x)
    IN  IF n = 0 THEN NaN
        ELSE IF n % 2 = 1 THEN sorted[(n + 1) \div 2]
        ELSE Div(Add(sorted[n \div 2], sorted[n \div 2 + 1]), Num(2))

\* np.mean(x): NaN for no samples
mean(x) == IF x = <<>> THEN NaN ELSE Mean(x)

\* np.where(x >= center, 1, 0)
Signs(x, center) ==
    [i \in 1..Len(x) |-> IF Gt(x[i], center) \/ Eq(x[i], center) THEN 1 ELSE 0]

\* np.sum(signs == v)
CountSigns(signs, v) == Cardinality({i \in 1..Len(signs) : signs[i] = v})

\* np.sum(signs[1:] != signs[:-1])
CountChanges(signs) == Cardinality({i \in 1..(Len(signs) - 1) : signs[i + 1] # signs[i]})

\* A compute that forgets to reset run_segments
kept_segments(s) == s.run_segments

\* self.run_segments = []
fresh_segments(s) == <<>>

RECURSIVE SegmentsLoop(_, _, _, _, _)
\* the loop `for i in range(i, len(signs))` over the 0-based index i, with
\* the segments recorded so far, and the append after it
SegmentsLoop(signs, i, start, curr_sign, segments) ==
    IF i >= Len(signs)
    THEN Append(segments, <<start, Len(signs) - 1, curr_sign>>)
    ELSE IF signs[i + 1] # curr_sign
    THEN SegmentsLoop(signs, i + 1, i, signs[i + 1],
                      Append(segments, <<start, i - 1, curr_sign>>))
    ELSE SegmentsLoop(signs, i + 1, start, curr_sign, segments)

\* compute, up to the p-value: the fields assigned from the signs
Runs_statistics(s, signs) ==
    LET n1 == CountSigns(signs, 1)
        n2 == CountSigns(signs, 0)
        runs == 1 + CountChanges(signs)
        expected_runs == Add(Num(1), Div(Num(2 * n1 * n2), Num(n1 + n2)))
        variance == Div(Num(2 * n1 * n2 * (2 * n1 * n2 - n1 - n2)),
                        Num((n1 + n2) * (n1 + n2) * (n1 + n2 - 1)))
        z_stat == IF IsNaN(variance) \/ IsZero(variance) THEN NaN
                  ELSE [num |-> Sub(Num(runs), expected_runs), var |-> variance]
    IN  [s EXCEPT !.signs = Some(signs),
                  !.runs = Some(runs),
                  !.expected_runs = Some(expected_runs),
                  !.z_stat = Some(z_stat),
                  !.p_value = Some([z |-> z_stat])]

\* compute, from `self.run_segments = []` on: s has the statistics assigned
Runs_segments(s, before) ==
    IF The(s.signs) = <<>>
    THEN Raise([s EXCEPT !.run_segments = fresh_segments(before)],
               "compute", 0, "IndexError")                      \* self.signs[0]
    ELSE Return([s EXCEPT !.run_segments =
                    SegmentsLoop(The(s.signs), 1, 0, The(s.signs)[1], fresh_segments(before))],
                "compute", 0,
                <<The(s.z_stat), The(s.p_value), The(s.runs), The(s.expected_runs)>>)

Runs_compute(s) ==
    Runs_segments(
        Runs_statistics(s, Signs(s.series, IF s.method = "median"
                                           THEN median(s.series) ELSE mean(s.series))),
        s)

Runs_plot(s) ==
    IF IsNone(s.signs) THEN Raise(s, "plot", 0, NotComputed)
    ELSE Return(s, "plot", 0, <<>>)

InitRuns ==
    \E series \in SeqUpTo(RunsSamples, MaxLenRuns) \ {<<>>}, method \in Methods :
        Constructed(Runs_init(series, method), series)

RunsCompute == self.cls = "RunsTestAnalyzer" /\ Apply(Runs_compute(self))

RunsPlot == self.cls = "RunsTestAnalyzer" /\ Apply(Runs_plot(self))

NextRuns == RunsCompute \/ RunsPlot

SpecRuns == InitRuns /\ [][NextRuns]_vars

(***************************************************************************)
(* The caller keeps the array it passed to FFTAnalyzer and writes to it.   *)
(* np.asarray of a numpy array is that array itself, so the instance's     *)
(* series and the caller's array are then one object; np.asarray of a list *)
(* is a new array.                                                         *)
(***************************************************************************)
MaxLenShared == 4
CallerSamples == {Num(0), Num(1)}

\* np.asarray(series): whether the result is the caller's object
asarray_shares(is_ndarray) == is_ndarray

InitCaller ==
    \E series \in SeqUpTo(CallerSamples, MaxLenShared) \ {<<>>}, fs \in FsValues,
       is_ndarray \in BOOLEAN :
        /\ self = FFT_init(series, fs)
        /\ input = series
        /\ caller = [original |-> series, shared |-> asarray_shares(is_ndarray)]
        /\ outcome = [op |-> "__init__", arg |-> 0, ok |-> TRUE, err |-> "", ret |-> <<>>]
        /\ computed = FALSE

\* series[i] = v by the caller, once, after construction
CallerWrites ==
    /\ input = caller.original
    /\ \E i \in 1..Len(input), v \in CallerSamples :
        /\ v # input[i]
        /\ input' = [input EXCEPT ![i] = v]
        /\ self' = IF caller.shared THEN [self EXCEPT !.series = input'] ELSE self
    /\ UNCHANGED <<outcome, computed, caller>>

NextCaller == FFTCompute \/ CallerWrites

SpecCaller == InitCaller /\ [][NextCaller]_vars

(***************************************************************************)
(* Properties.                                                             *)
(***************************************************************************)
\* The fields compute() assigns, per estimator
ResultFields(s) ==
    CASE s.cls = "FFTAnalyzer" ->
            <<s.freqs, s.amps, s.peak_freq, s.period, s.strength>>
      [] s.cls = "WaveletAnalyzer" ->
            <<s.coeffs, s.level_energy, s.period_estimates, s.dominant_level>>
      [] s.cls = "ACFAnalyzer" ->
            <<s.acf_vals, s.confint, s.qstat_vals, s.pvalues, s.peak_lag, s.peak_strength>>
      [] s.cls = "LombScargleAnalyzer" ->
            <<s.freqs, s.power, s.peak_freq, s.period>>
      [] s.cls = "RunsTestAnalyzer" ->
            <<s.signs, s.runs, s.z_stat, s.p_value, s.expected_runs>>

\* The result fields a successful compute() always fills (the confidence
\* band and the Ljung-Box arrays of ACFAnalyzer are optional, and so is the
\* period of a Lomb-Scargle peak at frequency 0)
MandatoryFields(s) ==
    CASE s.cls = "FFTAnalyzer" ->
            <<s.freqs, s.amps, s.peak_freq, s.period, s.strength>>
      [] s.cls = "WaveletAnalyzer" ->
            <<s.coeffs, s.level_energy, s.period_estimates, s.dominant_level>>
      [] s.cls = "ACFAnalyzer" -> <<s.acf_vals, s.peak_lag, s.peak_strength>>
      [] s.cls = "LombScargleAnalyzer" -> <<s.freqs, s.power, s.peak_freq>>
      [] s.cls = "RunsTestAnalyzer" ->
            <<s.signs, s.runs, s.z_stat, s.p_value, s.expected_runs>>

Populated(s) == \A i \in 1..Len(MandatoryFields(s)) : ~IsNone(MandatoryFields(s)[i])

Untouched(s) == \A i \in 1..Len(ResultFields(s)) : IsNone(ResultFields(s)[i])

ReadOps == {"plot", "reconstruct"}

\* C1: compute() is all-or-nothing: a call that returns has populated every
\* result field, a call that raises leaves every result field as it was
\* before the call.
C1_ComputeAllOrNothing ==
    [][outcome'.op = "compute" =>
          IF outcome'.ok THEN Populated(self')
          ELSE ResultFields(self') = ResultFields(self)]_vars

\* C2: while no compute() has succeeded on the instance, every read
\* operation (plot, reconstruct) raises NotComputed and changes no field,
\* failed compute() calls before it included.
C2_ReadBeforeComputeRaises ==
    [][(~computed /\ outcome'.op \in ReadOps) =>
          (~outcome'.ok /\ outcome'.err = NotComputed /\ self' = self)]_vars

\* The number D of detail levels the last compute() produced
DetailLevels(s) == Len(The(s.coeffs)) - 1

\* C3: after a successful compute() with D detail levels, reconstruct(level)
\* returns a reconstruction for 1 <= level <= D and fails for every other
\* level (0, the negative ones and those above D).
C3_ReconstructRejectsOutsideLevels ==
    (self.cls = "WaveletAnalyzer" /\ computed /\ outcome.op = "reconstruct") =>
        (outcome.ok <=> (1 <= outcome.arg /\ outcome.arg <= DetailLevels(self)))

\* The upper bound at a lag of the confidence band around zero is the
\* half-width sqrt(ci.w2) of the interval at that lag
ExceedsZeroBand(val, ci) == Gt(val, Num(0)) /\ Gt(Mul(val, val), ci.w2)

\* The lags k of 1..L-1 (those with both neighbours) whose coefficient is
\* strictly greater than both neighbours and exceeds the zero band at k
SignificantMaxima(acf_vals, confint) ==
    {k \in 1..(Len(acf_vals) - 2) :
        /\ Gt(acf_vals[k + 1], acf_vals[k])
        /\ Gt(acf_vals[k + 1], acf_vals[k + 2])
        /\ ExceedsZeroBand(acf_vals[k + 1], confint[k + 1])}

\* C4: with a confidence band enabled, multi_peaks lists exactly the lags
\* whose coefficient is a strict local maximum and exceeds the upper bound
\* at that lag of the confidence band around zero, each with its coefficient.
C4_MultiPeaksAreSignificantMaxima ==
    (self.cls = "ACFAnalyzer" /\ outcome.op = "compute" /\ outcome.ok /\ ~IsNone(self.alpha)) =>
        /\ {self.multi_peaks[i][1] : i \in 1..Len(self.multi_peaks)}
              = SignificantMaxima(The(self.acf_vals), The(self.confint))
        /\ \A i \in 1..Len(self.multi_peaks) :
              self.multi_peaks[i][2] = The(self.acf_vals)[self.multi_peaks[i][1] + 1]

\* np.sum(np.square(c)) of the detail array the stage-th analysis step
\* produces (stage 1 filters the series itself: the finest level)
StageEnergy(stages, stage) ==
    Div(Sum([k \in 1..Len(stages[stage]) |-> Mul(stages[stage][k], stages[stage][k])]),
        Num(Pow2(stage)))

\* C5: levels are numbered finest to coarsest: level j is the detail array
\* of the j-th analysis step (level 1 the longest array, filtered from the
\* series itself), level_energy[j-1] is its energy, dominant_level is the
\* 1-indexed argmax of level_energy and the period of level j is
\* 2^j / sampling_rate.
C5_LevelsNumberedFinestFirst ==
    (self.cls = "WaveletAnalyzer" /\ outcome.op = "compute" /\ outcome.ok) =>
        LET D == DetailLevels(self)
            stages == Decompose(self.series, self.wavelet, self.mode, D)
        IN  /\ \A j \in 1..D :
                  /\ Len(The(self.coeffs)[j + 1]) = Len(stages[j])
                  /\ The(self.level_energy)[j] = StageEnergy(stages, j)
                  /\ The(self.period_estimates)[j] = Div(Num(Pow2(j)), outcome.arg)
            /\ The(self.dominant_level) = ArgMax(The(self.level_energy)) + 1

\* C6: for a series of N >= 2 finite samples and a sampling rate fs > 0,
\* compute() succeeds, keeps floor(N/2) frequency and amplitude bins and takes the
\* dominant frequency from the bins 1..floor(N/2)-1, never from bin 0.
C6_FFTValidInputsSucceed ==
    (self.cls = "FFTAnalyzer" /\ outcome.op = "compute"
        /\ self.n >= 2 /\ ~HasNaN(self.series) /\ Gt(self.sampling_rate, Num(0))) =>
        /\ outcome.ok
        /\ Len(The(self.freqs)) = self.n \div 2
        /\ Len(The(self.amps)) = self.n \div 2
        /\ \E k \in 1..(self.n \div 2 - 1) :
              /\ The(self.peak_freq) = The(self.freqs)[k + 1]
              /\ The(self.strength) = The(self.amps)[k + 1]
              /\ \A m \in 1..(self.n \div 2 - 1) : ~Gt(The(self.amps)[m + 1], The(self.amps)[k + 1])

\* The arguments compute() has to reject
InvalidInput(s) ==
    CASE s.cls = "FFTAnalyzer" -> ~Gt(s.sampling_rate, Num(0)) \/ s.n < 2
      [] s.cls = "LombScargleAnalyzer" ->
            Len(s.t) # Len(s.y) \/ s.resolution < 2 \/ ~Gt(s.max_freq, s.min_freq)
      [] OTHER -> FALSE

\* C7: compute() on invalid arguments (FFT: fs <= 0 or fewer than 2
\* samples; Lomb-Scargle: t and y of different lengths, resolution < 2 or
\* f_min >= f_max) raises before any result field is written.
C7_InvalidInputRejectedEagerly ==
    (outcome.op = "compute" /\ InvalidInput(self)) => (~outcome.ok /\ Untouched(self))

\* The output of the synthesis for reconstruct(level), before truncation
SynthesisOutput(s, level) ==
    The(waverec(coeffs_copy(The(s.coeffs), level), s.wavelet, s.mode))

\* C8: after a successful compute(), reconstruct(level) for a valid level
\* in 1..D returns an array of exactly the length of the series; the
\* synthesis output is never shorter than the series.
C8_ReconstructLengthIsSeriesLength ==
    (self.cls = "WaveletAnalyzer" /\ computed /\ outcome.op = "reconstruct"
        /\ 1 <= outcome.arg /\ outcome.arg <= DetailLevels(self)) =>
        /\ outcome.ok
        /\ Len(outcome.ret) = Len(self.series)
        /\ Len(SynthesisOutput(self, outcome.arg)) >= Len(self.series)

\* reconstruct(level) of a valid level truncated a synthesis output longer
\* than a series of odd length, at depth 2
C8_Witness ==
    /\ self.cls = "WaveletAnalyzer" /\ computed /\ outcome.op = "reconstruct" /\ outcome.ok
    /\ outcome.arg = 2 /\ DetailLevels(self) = 2
    /\ Len(self.series) = 3
    /\ Len(SynthesisOutput(self, 2)) > 3
    /\ Len(outcome.ret) = 3

\* What reconstruct(level) returns on the instance s
Reconstruction(s, level) == Wavelet_reconstruct(s, level).outcome.ret

\* The reconstruction from the full coefficient set, cut to the series
FullReconstruction(s) ==
    Truncate(The(waverec(The(s.coeffs), s.wavelet, s.mode)), s.series)

\* reconstruct(1) + ... + reconstruct(D), sample by sample
SumOfLevels(s) ==
    [m \in 1..Len(s.series) |->
        Sum([level \in 1..DetailLevels(s) |-> Reconstruction(s, level)[m]])]

\* The reconstruction from the approximation array alone: what the code
\* computes for level 0
ApproximationOnly(s) == Reconstruction(s, 0)

\* C9 as stated: after compute(), reconstruct(1) + ... + reconstruct(D)
\* equals the reconstruction from the full coefficient set, which is the
\* original series (at the samples where the full reconstruction is a
\* number).
C9_LevelsSumToSeries ==
    (self.cls = "WaveletAnalyzer" /\ outcome.op = "compute" /\ outcome.ok) =>
        \A m \in 1..Len(self.series) :
            ~IsNaN(FullReconstruction(self)[m]) =>
                /\ SumOfLevels(self)[m] = FullReconstruction(self)[m]
                /\ FullReconstruction(self)[m] = self.series[m]

\* C9 amended: after compute(), reconstruct(1) + ... + reconstruct(D) plus
\* the reconstruction from the approximation array alone equals the
\* reconstruction from the full coefficient set, which is the original
\* series (at the samples where the full reconstruction is a number).
C9_LevelsAndApproximationSumToSeries ==
    (self.cls = "WaveletAnalyzer" /\ outcome.op = "compute" /\ outcome.ok) =>
        /\ Len(FullReconstruction(self)) = Len(self.series)
        /\ \A m \in 1..Len(self.series) :
            ~IsNaN(FullReconstruction(self)[m]) =>
                /\ Add(SumOfLevels(self)[m], ApproximationOnly(self)[m])
                      = FullReconstruction(self)[m]
                /\ FullReconstruction(self)[m] = self.series[m]

\* compute() succeeded with two detail levels on a series of finite samples
\* whose approximation and details both contribute to the reconstruction
C9_Witness ==
    /\ self.cls = "WaveletAnalyzer" /\ outcome.op = "compute" /\ outcome.ok
    /\ DetailLevels(self) = 2
    /\ ~HasNaN(self.series)
    /\ Len(self.series) = 3
    /\ \E m \in 1..3 : ~IsZero(ApproximationOnly(self)[m])
    /\ \E m \in 1..3 : ~IsZero(SumOfLevels(self)[m])
    /\ FullReconstruction(self) = self.series

\* The samples compute() analyses
AnalysedSamples(s) ==
    IF s.cls = "LombScargleAnalyzer" THEN s.t \o s.y ELSE s.series

\* C10: every estimator drops the missing (NaN) samples of its input and
\* keeps the others in their order: the series compute() analyses holds no
\* missing sample.
C10_MissingSamplesDropped ==
    (outcome.op = "compute") =>
        /\ ~HasNaN(AnalysedSamples(self))
        /\ self.cls # "LombScargleAnalyzer" => self.series = dropna(input)

\* The inputs ACFAnalyzer accepts: at least 2 non-missing samples and a
\* maximum lag L with 1 <= L < N
ValidACFInput(s) == Len(s.series) >= 2 /\ 1 <= s.nlags /\ s.nlags < Len(s.series)

\* C11: for every valid input to ACFAnalyzer, a series of equal samples
\* included, compute() succeeds and the coefficient stored at lag 0 is
\* exactly 1.0.
C11_LagZeroIsOne ==
    (self.cls = "ACFAnalyzer" /\ outcome.op = "compute" /\ ValidACFInput(self)) =>
        (outcome.ok /\ The(self.acf_vals)[1] = Num(1))

\* The lags 1..L compute() has a coefficient for
Lags(s) == 1..(Len(The(s.acf_vals)) - 1)

\* C12: after compute(), peak_lag is a lag of 1..L whose coefficient no
\* other lag of 1..L exceeds, every lower lag has a strictly smaller
\* coefficient (of equal maxima the lowest lag is selected), and
\* peak_strength is the coefficient at peak_lag.
C12_PeakLagIsFirstMaximum ==
    (self.cls = "ACFAnalyzer" /\ outcome.op = "compute" /\ outcome.ok) =>
        LET acf_vals == The(self.acf_vals)
            peak_lag == The(self.peak_lag)
        IN  /\ peak_lag \in Lags(self)
            /\ peak_lag <= self.nlags
            /\ The(self.peak_strength) = acf_vals[peak_lag + 1]
            /\ \A k \in Lags(self) : ~Gt(acf_vals[k + 1], acf_vals[peak_lag + 1])
            /\ \A k \in 1..(peak_lag - 1) : Gt(acf_vals[peak_lag + 1], acf_vals[k + 1])
            /\ IsNaN(acf_vals[peak_lag + 1]) => \A k \in Lags(self) : IsNaN(acf_vals[k + 1])

\* compute() met two lags with the same maximal coefficient and selected
\* the lower one
C12_Witness ==
    /\ self.cls = "ACFAnalyzer" /\ outcome.op = "compute" /\ outcome.ok
    /\ ~IsNaN(The(self.peak_strength))
    /\ \E k \in Lags(self) :
          /\ k > The(self.peak_lag)
          /\ The(self.acf_vals)[k + 1] = The(self.peak_strength)

\* C13: the instance owns a copy of its input: whatever the caller writes
\* to the array it passed, the series of the instance stays the one passed
\* at construction and compute() returns what it returns for that series.
C13_InstanceOwnsInputCopy ==
    (self.cls = "FFTAnalyzer") =>
        /\ self.series = caller.original
        /\ outcome.op = "compute" =>
              outcome = FFT_compute(FFT_init(caller.original, self.sampling_rate)).outcome

\* C14: reconstruct(level), for valid and failing levels alike, and plot()
\* leave coeffs, level_energy, period_estimates and dominant_level as they
\* were: after a successful compute() no read operation changes a stored
\* result.
C14_ReadsKeepStoredResults ==
    [][(self.cls = "WaveletAnalyzer" /\ computed /\ outcome'.op \in ReadOps) =>
          ResultFields(self') = ResultFields(self)]_vars

\* reconstruct(level) returned after a successful compute() that stored
\* two detail arrays, with a non-zero coefficient in an array other than
\* the one of that level
C14_Witness ==
    /\ self.cls = "WaveletAnalyzer" /\ computed
    /\ outcome.op = "reconstruct" /\ outcome.ok /\ outcome.arg = 1
    /\ DetailLevels(self) = 2
    /\ \E k \in 1..Len(The(self.coeffs)[3]) : ~IsZero(The(self.coeffs)[3][k])
    /\ ~IsNone(self.period_estimates)

\* C15: after compute() on a series with at least one sample, there are
\* exactly `runs` run_segments; they partition the indices 0..n-1 in order
\* (the first starts at 0, the last ends at n-1, each starts right after
\* the previous one ends), every index of a segment has the segment's sign
\* and adjacent segments differ in sign; a repeated compute() replaces the
\* segments.
C15_RunSegmentsMatchRuns ==
    (self.cls = "RunsTestAnalyzer" /\ outcome.op = "compute" /\ Len(self.series) >= 1) =>
        LET segments == self.run_segments
            signs == The(self.signs)
        IN  /\ outcome.ok
            /\ Len(signs) = Len(self.series)
            /\ Len(segments) = The(self.runs)
            /\ segments[1][1] = 0
            /\ segments[Len(segments)][2] = Len(signs) - 1
            /\ \A k \in 1..Len(segments) :
                  /\ segments[k][1] <= segments[k][2]
                  /\ \A i \in segments[k][1]..segments[k][2] : signs[i + 1] = segments[k][3]
            /\ \A k \in 2..Len(segments) :
                  /\ segments[k][1] = segments[k - 1][2] + 1
                  /\ segments[k][3] # segments[k - 1][3]

\* compute() recorded three runs of a series of four samples, the middle
\* run two samples long
C15_Witness ==
    /\ self.cls = "RunsTestAnalyzer" /\ outcome.op = "compute" /\ outcome.ok
    /\ Len(self.series) = 4
    /\ The(self.runs) = 3
    /\ self.run_segments = <<<<0, 0, 1>>, <<1, 2, 0>>, <<3, 3, 1>>>>

=============================================================================
